---- MODULE Spec2Model ----
(***************************************************************************)
(* ha-tkpd-tracker: one run of src/main.rs (main thread + the              *)
(* "MQTTEventLoop" worker thread) against an MQTT broker that keeps        *)
(* retained messages, and sequences of such runs against the same broker.  *)
(*                                                                         *)
(* Strings are TLA+ strings; Option<T> is None / Some(v); serde_json       *)
(* values are tagged records (JNull, JStr, JInt, JArr, JObj).              *)
(***************************************************************************)
EXTENDS Integers, Sequences, FiniteSets, TLC

VARIABLES
    args,           \* Args: url, mqtt_username, mqtt_password, ha_mqtt_discovery_topic, unretain
    pc,             \* position of main()
    exit_status,    \* None while the process runs, Some(code) once it has ended
    fatal,          \* the message of the error that ended the run, "" if none
    mqtt_opts,      \* None before MqttOptions::new, Some([credentials |-> ...]) after
    mqtt_thread,    \* "unspawned" | "running" | "stopped" : the MQTTEventLoop thread
    requests,       \* the client's bounded request channel (capacity RequestCap)
    conn,           \* "idle" | "connected" | "closed" : the worker's network connection
    connAttempted,  \* the worker has started a connection attempt
    disconnectRequested, \* main has handed Request::Disconnect to the channel
    notification,   \* the last notification the worker drained
    workerLog,      \* the log line the worker wrote for that notification
    url,            \* the parsed URL (None before parsing)
    shop_domain,    \* Option<&str>
    product_key,    \* Option<&str>
    product_hash,   \* Option<String>
    httpFetched,    \* the HTTP request has been sent
    body,           \* the response document (None before the fetch)
    snapshot,       \* None, or Some([name, price, stock]) once extracted
    published,      \* the messages main handed to the channel in this run, in call order
    sent,           \* how many of them the worker has written to the broker
    retained,       \* the broker's retained store: topic -> payload
    now,            \* the wall clock (Utc::now) of the current run
    run,            \* the number of the current run
    prev,           \* the create run before this one (None if it was none)
    retained0,      \* the retained store when the current run started
    hex_slice,      \* the bytes handed to HexSlice (<<>> when none are)
    hex_text        \* None, or Some(text) once format!("{:x}", HexSlice(..)) has run

vars == <<args, pc, exit_status, fatal, mqtt_opts, mqtt_thread, requests, conn,
          connAttempted, disconnectRequested, notification, workerLog, url,
          shop_domain, product_key, product_hash, httpFetched, body, snapshot,
          published, sent, retained, now, run, prev, retained0, hex_slice, hex_text>>

procVars == <<args, pc, exit_status, fatal, mqtt_opts, mqtt_thread, requests, conn,
              connAttempted, disconnectRequested, notification, workerLog, url,
              shop_domain, product_key, product_hash, httpFetched, body, snapshot,
              published, sent>>

(***************************************************************************)
(* Bounds of the model.                                                    *)
(***************************************************************************)
MaxRuns == 2

(***************************************************************************)
(* Program constants.                                                      *)
(***************************************************************************)
RequestCap == 2
DigestLen == 4
ExitOk == 0
ExitPanic == 101
CARGO_PKG_VERSION == "0.1.0"

None == [some |-> FALSE]
Some(v) == [some |-> TRUE, v |-> v]

(***************************************************************************)
(* Characters and bytes.                                                   *)
(***************************************************************************)
Digits == "0123456789"
Lower == "abcdefghijklmnopqrstuvwxyz"
Upper == "ABCDEFGHIJKLMNOPQRSTUVWXYZ"

CharAt(s, i) == SubSeq(s, i, i)

RECURSIVE IndexOf(_, _, _)
\* the first index >= from at which character c occurs in s, 0 if none
IndexOf(s, c, from) ==
    IF from > Len(s) THEN 0
    ELSE IF CharAt(s, from) = c THEN from
    ELSE IndexOf(s, c, from + 1)

\* the ASCII code of a character (the characters the inputs are made of)
CharCode(c) ==
    IF IndexOf(Digits, c, 1) > 0 THEN 47 + IndexOf(Digits, c, 1)
    ELSE IF IndexOf(Lower, c, 1) > 0 THEN 96 + IndexOf(Lower, c, 1)
    ELSE IF IndexOf(Upper, c, 1) > 0 THEN 64 + IndexOf(Upper, c, 1)
    ELSE IF c = " " THEN 32
    ELSE IF c = "+" THEN 43
    ELSE IF c = "-" THEN 45
    ELSE IF c = "." THEN 46
    ELSE IF c = "/" THEN 47
    ELSE IF c = ":" THEN 58
    ELSE 63

\* str::as_bytes
AsBytes(s) == [i \in 1..Len(s) |-> CharCode(CharAt(s, i))]

StartsWith(s, p) == Len(s) >= Len(p) /\ SubSeq(s, 1, Len(p)) = p

RECURSIVE Split(_, _)
\* str::split(c): the pieces of s between occurrences of c (at least one piece)
Split(s, c) ==
    LET i == IndexOf(s, c, 1)
    IN IF i = 0 THEN <<s>>
       ELSE <<SubSeq(s, 1, i - 1)>> \o Split(SubSeq(s, i + 1, Len(s)), c)

(***************************************************************************)
(* Identity: Blake2sVar::new(4), two write_all calls, finalize, HexSlice.  *)
(* The digest primitive is the external blake2 crate; it is modelled by a  *)
(* four-lane byte checksum of the byte stream, which shares what the       *)
(* program relies on: the digest is a function of the bytes written, in    *)
(* order, and is DigestLen bytes long.                                     *)
(***************************************************************************)
Mix(h, b) == [i \in 1..DigestLen |->
                 (h[i] * (29 + 2 * i) + h[(i % DigestLen) + 1] + b + i) % 256]

RECURSIVE Absorb(_, _)
Absorb(h, bytes) ==
    IF bytes = <<>> THEN h
    ELSE Absorb(Mix(h, Head(bytes)), Tail(bytes))

\* the hasher is its buffer of written bytes
HasherNew == <<>>
\* a hasher that ends every written field with a zero byte
WriteAllSeparated(hasher, bytes) == hasher \o bytes \o <<0>>
WriteAll(hasher, bytes) == hasher \o bytes
FinalizeBoxed(hasher) == Absorb([i \in 1..DigestLen |-> (83 * i) % 256], hasher)

HexDigits == "0123456789abcdef"
HexDigit(n) == CharAt(HexDigits, n + 1)

\* format!("{byte:x}"): lowercase hex without leading zeros
LowerHexByte(b) == IF b < 16 THEN HexDigit(b) ELSE HexDigit(b \div 16) \o HexDigit(b % 16)

\* format!("{byte:x}") in place of the padded form
PadByteNone(b) == LowerHexByte(b)

\* format!("{byte:0>2x}"): right-aligned in width 2, filled with zeros
PadByte(b) == LET h == LowerHexByte(b) IN IF Len(h) < 2 THEN "0" \o h ELSE h

RECURSIVE HexBytes(_)
HexBytes(bytes) == IF bytes = <<>> THEN "" ELSE PadByte(Head(bytes)) \o HexBytes(Tail(bytes))

\* <HexSlice as fmt::LowerHex>::fmt
HexSliceFmt(bytes, alternate) == (IF alternate THEN "0x" ELSE "") \o HexBytes(bytes)

\* lines 159-163: format!("{:x}", HexSlice(&product_hash)) has no '#' flag
ProductHash(shop, key) ==
    LET h0 == HasherNew
        h1 == WriteAll(h0, AsBytes(shop))
        h2 == WriteAll(h1, AsBytes(key))
    IN HexSliceFmt(FinalizeBoxed(h2), FALSE)

(***************************************************************************)
(* reqwest::Url (external): the parse result the program reads.  An        *)
(* http(s) URL has a host and a path that starts with "/"; a URL of        *)
(* another scheme ("mailto:x") has no host and cannot be a base; a string  *)
(* with no scheme does not parse.                                          *)
(***************************************************************************)
AfterScheme(s) ==
    IF StartsWith(s, "https://") THEN SubSeq(s, 9, Len(s))
    ELSE SubSeq(s, 8, Len(s))

UrlParse(s) ==
    IF StartsWith(s, "https://") \/ StartsWith(s, "http://")
    THEN LET rest == AfterScheme(s)
             i == IndexOf(rest, "/", 1)
             host == IF i = 0 THEN rest ELSE SubSeq(rest, 1, i - 1)
             path == IF i = 0 THEN "/" ELSE SubSeq(rest, i, Len(rest))
         IN IF host = "" THEN None
            ELSE Some([host |-> Some(host), path |-> path, cannot_be_a_base |-> FALSE])
    ELSE IF IndexOf(s, ":", 1) > 1
    THEN Some([host |-> None, path |-> SubSeq(s, IndexOf(s, ":", 1) + 1, Len(s)),
               cannot_be_a_base |-> TRUE])
    ELSE None

\* Url::host_str
HostStr(u) == u.host

\* Url::path_segments: None for a cannot-be-a-base URL, else the path after its
\* leading "/" split at "/"
PathSegments(u) ==
    IF u.cannot_be_a_base THEN None
    ELSE Some(Split(SubSeq(u.path, 2, Len(u.path)), "/"))

\* lines 139-141: host_str().is_none_or(|u| u != "tokopedia.com" && u != "www.tokopedia.com")
WrongHost(u) ==
    \/ ~HostStr(u).some
    \/ (HostStr(u).v # "tokopedia.com" /\ HostStr(u).v # "www.tokopedia.com")

\* Iterator::next on the segment iterator at position i
SegmentNext(segs, i) == IF i <= Len(segs) THEN Some(segs[i]) ELSE None

(***************************************************************************)
(* Integers as text: i64::to_string and str::parse::<i64>.                 *)
(***************************************************************************)
RECURSIVE NatToString(_)
NatToString(n) ==
    IF n < 10 THEN CharAt(Digits, n + 1)
    ELSE NatToString(n \div 10) \o CharAt(Digits, (n % 10) + 1)

I64ToString(n) == IF n < 0 THEN "-" \o NatToString(-n) ELSE NatToString(n)

RECURSIVE ParseDigits(_, _)
\* the value of a string of decimal digits after accumulator acc; None on a non-digit
ParseDigits(s, acc) ==
    IF s = "" THEN Some(acc)
    ELSE LET d == IndexOf(Digits, CharAt(s, 1), 1)
         IN IF d = 0 THEN None
            ELSE ParseDigits(SubSeq(s, 2, Len(s)), acc * 10 + (d - 1))

\* str::parse::<i64>: an optional sign, then one or more digits, nothing else
ParseI64(s) ==
    IF s = "" THEN None
    ELSE IF CharAt(s, 1) = "-" \/ CharAt(s, 1) = "+"
    THEN LET r == SubSeq(s, 2, Len(s))
             m == ParseDigits(r, 0)
         IN IF r = "" \/ ~m.some THEN None
            ELSE IF CharAt(s, 1) = "-" THEN Some(0 - m.v) ELSE m
    ELSE ParseDigits(s, 0)

\* chrono: DateTime<Utc>::to_rfc3339 of the clock reading t (seconds into the minute)
ToRfc3339(t) ==
    "2026-01-01T00:00:" \o (IF t < 10 THEN "0" ELSE "") \o NatToString(t) \o "+00:00"

(***************************************************************************)
(* serde_json::Value.                                                      *)
(***************************************************************************)
JNull == [t |-> "null"]
JStr(s) == [t |-> "str", str |-> s]
JInt(n) == [t |-> "int", int |-> n]
JArr(a) == [t |-> "arr", arr |-> a]
JObj(o) == [t |-> "obj", obj |-> o]

\* Value::get(&str)
Get(v, k) == IF v.t = "obj" /\ k \in DOMAIN v.obj THEN Some(v.obj[k]) ELSE None
\* Value::get(usize), zero-based
GetIdx(v, i) == IF v.t = "arr" /\ i + 1 <= Len(v.arr) THEN Some(v.arr[i + 1]) ELSE None
\* Index: v["k"] is Null when the key is absent or v is no object
Index(v, k) == IF Get(v, k).some THEN Get(v, k).v ELSE JNull
AsArray(v) == IF v.t = "arr" THEN Some(v.arr) ELSE None
AsStr(v) == IF v.t = "str" THEN Some(v.str) ELSE None
AsI64(v) == IF v.t = "int" THEN Some(v.int) ELSE None
\* PartialEq<&str> for Value
EqStr(v, s) == v.t = "str" /\ v.str = s

\* Display for Value: compact JSON text (strings quoted, integers in decimal)
Display(v) ==
    IF v.t = "str" THEN "\"" \o v.str \o "\""
    ELSE IF v.t = "int" THEN I64ToString(v.int)
    ELSE IF v.t = "null" THEN "null"
    ELSE IF v.t = "arr" THEN "[..]"
    ELSE "{..}"

(***************************************************************************)
(* Lines 314-347: the extraction of the snapshot from the response.        *)
(* The result is [ok |-> TRUE, snapshot] or [ok |-> FALSE, msg], msg the   *)
(* panic message.                                                          *)
(***************************************************************************)
Panic(m) == [ok |-> FALSE, msg |-> m]
UnwrapNone == "called Option::unwrap() on a None value"
ApiChanged == "Unable to fetch product content detail - It seems like Tokopedia changed their API!"

RECURSIVE FindComponent(_, _)
\* .iter().find(|c| c.get("name").unwrap() == "product_content") from index i:
\* [panic |-> TRUE], or [panic |-> FALSE, found |-> Option<component>]
FindComponent(comps, i) ==
    IF i > Len(comps) THEN [panic |-> FALSE, found |-> None]
    ELSE IF ~Get(comps[i], "name").some THEN [panic |-> TRUE]
    ELSE IF EqStr(Get(comps[i], "name").v, "product_content")
    THEN [panic |-> FALSE, found |-> Some(comps[i])]
    ELSE FindComponent(comps, i + 1)

\* lines 338-347
Project(data) ==
    LET name == AsStr(Index(data, "name"))
        price == AsI64(Index(Index(data, "price"), "value"))
        stockStr == AsStr(Index(Index(data, "stock"), "value"))
        stock == IF stockStr.some THEN ParseI64(stockStr.v) ELSE None
    IN IF ~name.some THEN Panic("Unable to decode product name")
       ELSE IF ~price.some THEN Panic("Unable to decode product price")
       ELSE IF ~stock.some THEN Panic("Unable to decode product stock")
       ELSE [ok |-> TRUE,
             snapshot |-> [name |-> name.v, price |-> price.v, stock |-> stock.v]]

\* lines 323-335
Locate(doc) ==
    LET component == Index(Index(Index(doc, "data"), "pdpGetLayout"), "components")
        arr == AsArray(component)
    IN IF ~arr.some THEN Panic(UnwrapNone)
       ELSE LET f == FindComponent(arr.v, 1)
            IN IF f.panic THEN Panic(UnwrapNone)
               ELSE IF ~f.found.some THEN Panic(ApiChanged)
               ELSE LET d == Get(f.found.v, "data")
                        d0 == IF d.some THEN GetIdx(d.v, 0) ELSE None
                    IN IF ~d0.some THEN Panic(ApiChanged) ELSE Project(d0.v)

\* lines 314-321, then the rest
Extract(doc) ==
    LET err == Get(doc, "errors")
    IN IF err.some
       THEN LET first_error == GetIdx(err.v, 0)
            IN IF ~first_error.some THEN Panic("Ada error tapi gaada error woi")
               ELSE LET message == Get(first_error.v, "message")
                    IN IF ~message.some
                       THEN Panic("Woi ada error tapi messagenya gaada goblok ini toped")
                       ELSE Panic("Unable to fetch product data - " \o Display(message.v))
       ELSE Locate(doc)

(***************************************************************************)
(* Messages.  A payload is text (bytes) or the text of a JSON object; the  *)
(* empty payload [] is the empty text.                                     *)
(***************************************************************************)
Text(s) == [kind |-> "text", text |-> s]
Json(o) == [kind |-> "json", json |-> o]
EmptyPayload == Text("")
IsEmpty(p) == p.kind = "text" /\ p.text = ""

\* a publish without the retain flag
PublishUnretained(topic, payload) ==
    [topic |-> topic, qos |-> "AtLeastOnce", retain |-> FALSE, payload |-> payload]
\* mqtt_client.publish(topic, QoS::AtLeastOnce, true, payload)
Publish(topic, payload) ==
    [topic |-> topic, qos |-> "AtLeastOnce", retain |-> TRUE, payload |-> payload]

\* a delete path that erases the discovery configs and forgets the state topics
DeleteConfigsOnly(prefix, hash) == <<
    Publish(prefix \o "/sensor/tkpd-" \o hash \o "/name/config", EmptyPayload),
    Publish(prefix \o "/sensor/tkpd-" \o hash \o "/price/config", EmptyPayload),
    Publish(prefix \o "/sensor/tkpd-" \o hash \o "/stock/config", EmptyPayload),
    Publish(prefix \o "/sensor/tkpd-" \o hash \o "/updated-at/config", EmptyPayload),
    Publish(prefix \o "/sensor/tkpd-" \o hash \o "/scraper-version/config", EmptyPayload) >>

\* lines 175-269: the ten publishes of the delete path, in call order
DeleteMsgs(prefix, hash) == <<
    Publish(prefix \o "/sensor/tkpd-" \o hash \o "/name/config", EmptyPayload),
    Publish(prefix \o "/sensor/tkpd-" \o hash \o "/price/config", EmptyPayload),
    Publish(prefix \o "/sensor/tkpd-" \o hash \o "/stock/config", EmptyPayload),
    Publish(prefix \o "/sensor/tkpd-" \o hash \o "/updated-at/config", EmptyPayload),
    Publish(prefix \o "/sensor/tkpd-" \o hash \o "/scraper-version/config", EmptyPayload),
    Publish("tkpdprice/" \o hash \o "/name", EmptyPayload),
    Publish("tkpdprice/" \o hash \o "/price", EmptyPayload),
    Publish("tkpdprice/" \o hash \o "/stock", EmptyPayload),
    Publish("tkpdprice/" \o hash \o "/updated-at", EmptyPayload),
    Publish("tkpdprice/" \o hash \o "/scraper-version", EmptyPayload) >>

\* the .expect messages of the delete path's publishes
DeleteExpects == <<
    "Unable to delete HA Product Name Config",
    "Unable to delete HA Product Price Config",
    "Unable to delete HA Product Stock Config",
    "Unable to delete HA updated at Config",
    "Unable to delete HA scraper version Config",
    "Unable to delete item name value",
    "Unable to delete item price value",
    "Unable to delete item stock value",
    "Unable to delete last updated timestamp value",
    "Unable to delete scraper version value" >>

\* a descriptor whose serial number is taken from the clock instead of the hash
DeviceInfoClockSerial(shop, key, hash, name) ==
    [manufacturer |-> shop,
     model_id |-> name,
     identifiers |-> "tkpdprice-" \o hash,
     serial_number |-> ToRfc3339(now),
     sw_version |-> CARGO_PKG_VERSION,
     configuration_url |-> "https://tokopedia.com/" \o shop \o "/" \o key,
     name |-> name]

\* a descriptor that identifies the device by the shop alone
DeviceInfoShopIdentity(shop, key, hash, name) ==
    [manufacturer |-> shop,
     model_id |-> name,
     identifiers |-> "tkpdprice-" \o shop,
     serial_number |-> shop,
     sw_version |-> CARGO_PKG_VERSION,
     configuration_url |-> "https://tokopedia.com/" \o shop \o "/" \o key,
     name |-> name]
\* lines 353-361
DeviceInfo(shop, key, hash, name) ==
    [manufacturer |-> shop,
     model_id |-> name,
     identifiers |-> "tkpdprice-" \o hash,
     serial_number |-> hash,
     sw_version |-> CARGO_PKG_VERSION,
     configuration_url |-> "https://tokopedia.com/" \o shop \o "/" \o key,
     name |-> name]

\* lines 363-514: the ten publishes of the create path, in call order
CreateMsgs(prefix, hash, device_info, snap, t) == <<
    Publish(prefix \o "/sensor/tkpd-" \o hash \o "/name/config",
        Json([device |-> device_info,
              platform |-> "sensor",
              force_update |-> TRUE,
              unique_id |-> "tkpdprice-" \o hash \o "-name",
              state_topic |-> "tkpdprice/" \o hash \o "/name",
              name |-> "Name"])),
    Publish(prefix \o "/sensor/tkpd-" \o hash \o "/price/config",
        Json([device |-> device_info,
              platform |-> "sensor",
              device_class |-> "monetary",
              unit_of_measurement |-> "IDR",
              force_update |-> TRUE,
              unique_id |-> "tkpdprice-" \o hash \o "-price",
              state_topic |-> "tkpdprice/" \o hash \o "/price",
              name |-> "Price"])),
    Publish(prefix \o "/sensor/tkpd-" \o hash \o "/stock/config",
        Json([device |-> device_info,
              platform |-> "sensor",
              force_update |-> TRUE,
              unique_id |-> "tkpdprice-" \o hash \o "-stock",
              state_topic |-> "tkpdprice/" \o hash \o "/stock",
              unit_of_measurement |-> "pcs",
              suggested_display_precision |-> 0,
              icon |-> "mdi:numeric",
              name |-> "Stock"])),
    Publish(prefix \o "/sensor/tkpd-" \o hash \o "/updated-at/config",
        Json([device |-> device_info,
              platform |-> "sensor",
              entity_category |-> "diagnostic",
              device_class |-> "timestamp",
              force_update |-> FALSE,
              enabled_by_default |-> TRUE,
              unique_id |-> "tkpdprice-" \o hash \o "-updatedat",
              state_topic |-> "tkpdprice/" \o hash \o "/updated-at",
              name |-> "Last update"])),
    Publish(prefix \o "/sensor/tkpd-" \o hash \o "/scraper-version/config",
        Json([device |-> device_info,
              platform |-> "sensor",
              entity_category |-> "diagnostic",
              force_update |-> FALSE,
              icon |-> "mdi:cogs",
              unique_id |-> "tkpdprice-" \o hash \o "-scraperversion",
              state_topic |-> "tkpdprice/" \o hash \o "/scraper-version",
              name |-> "Scraper version"])),
    Publish("tkpdprice/" \o hash \o "/name", Text(snap.name)),
    Publish("tkpdprice/" \o hash \o "/price", Text(I64ToString(snap.price))),
    Publish("tkpdprice/" \o hash \o "/stock", Text(I64ToString(snap.stock))),
    Publish("tkpdprice/" \o hash \o "/updated-at", Text(ToRfc3339(t))),
    Publish("tkpdprice/" \o hash \o "/scraper-version", Text(CARGO_PKG_VERSION)) >>

\* the .expect messages of the create path's publishes
CreateExpects == <<
    "Unable to send monetary config",
    "Unable to send monetary config",
    "Unable to send stock config",
    "Unable to send updated at config",
    "Unable to send scraper version config",
    "Unable to update name value",
    "Unable to update price value",
    "Unable to update price value",
    "Unable to update last updated at data",
    "Unable to update scraper version data" >>

PublishRequest(m) == [req |-> "Publish", msg |-> m]
DisconnectRequest == [req |-> "Disconnect"]

\* the broker on a PUBLISH: a retained message replaces the topic's retained
\* message, and an empty retained payload removes it
BrokerStore(store, m) ==
    IF ~m.retain THEN store
    ELSE IF IsEmpty(m.payload)
    THEN [t \in DOMAIN store \ {m.topic} |-> store[t]]
    ELSE [t \in DOMAIN store \cup {m.topic} |-> IF t = m.topic THEN m.payload ELSE store[t]]

EmptyStore == [t \in {} |-> EmptyPayload]

Range(f) == {f[i] : i \in DOMAIN f}
TopicsOf(msgs) == {m.topic : m \in Range(msgs)}

(***************************************************************************)
(* Inputs: command lines and responses of the remote API.                  *)
(***************************************************************************)
Urls == {"not a url",
         "mailto:shop",
         "https://example.com/ab/c",
         "https://tokopedia.com",
         "https://tokopedia.com/shop",
         "https://tokopedia.com/shop/",
         "https://tokopedia.com//key",
         "https://www.tokopedia.com/ab/c",
         "https://tokopedia.com/a/bc"}

Usernames == {None, Some("ha")}
Passwords == {None, Some("secret")}
Prefixes == {"homeassistant", "ha"}

Inputs == [url : Urls, mqtt_username : Usernames, mqtt_password : Passwords,
           ha_mqtt_discovery_topic : Prefixes, unretain : BOOLEAN]

\* the command lines of the runs that follow one another against one broker
RunInputs == [url : {"https://www.tokopedia.com/ab/c"}, mqtt_username : {None},
              mqtt_password : {None}, ha_mqtt_discovery_topic : {"homeassistant"},
              unretain : BOOLEAN]

Component(name, data) == JObj([name |-> JStr(name), data |-> JArr(data)])
Layout(components) == JObj([data |-> JObj([pdpGetLayout |-> JObj([components |-> components])])])
Content(name, price, stock) == JObj([name |-> name, price |-> JObj([value |-> price]),
                                     stock |-> JObj([value |-> stock])])
ProductDoc(name, price, stock) ==
    Layout(JArr(<<Component("product_media", <<>>),
                  Component("product_content", <<Content(name, price, stock)>>)>>))

GoodBodies == {ProductDoc(JStr("Widget"), JInt(15000), JStr("42")),
               ProductDoc(JStr("Widget"), JInt(14000), JStr("+7"))}

BadBodies == {JObj([errors |-> JArr(<<JObj([message |-> JStr("not found")])>>)]),
              JObj([errors |-> JArr(<<JObj([code |-> JInt(500)])>>)]),
              JObj([errors |-> JArr(<<>>)]),
              Layout(JNull),
              Layout(JArr(<<Component("product_media", <<>>)>>)),
              Layout(JArr(<<JObj([type |-> JStr("x")]),
                            Component("product_content",
                                      <<Content(JStr("Widget"), JInt(15000), JStr("42"))>>)>>)),
              Layout(JArr(<<Component("product_content", <<>>)>>)),
              ProductDoc(JNull, JInt(15000), JStr("42")),
              ProductDoc(JStr("Widget"), JStr("15000"), JStr("42")),
              ProductDoc(JStr("Widget"), JInt(15000), JInt(42)),
              ProductDoc(JStr("Widget"), JInt(15000), JStr("many"))}

Bodies == GoodBodies \cup BadBodies

\* what the HTTP exchange of lines 303-311 gives: a failed send, a response that is
\* no JSON, or a document
HttpOutcomes(docs) == {[kind |-> "send_failed"], [kind |-> "not_json"]}
                          \cup {[kind |-> "json", doc |-> d] : d \in docs}

\* lines 314-347 applied to each response body the exchange can give
Extracted == [doc \in Bodies |-> Extract(doc)]

(***************************************************************************)
(* The state after process start (Args::parse done), for a command line a  *)
(* and the broker and clock left by the runs before.                       *)
(***************************************************************************)
ProcStart(a) ==
    /\ args = a
    /\ pc = "args"
    /\ exit_status = None
    /\ fatal = ""
    /\ mqtt_opts = None
    /\ mqtt_thread = "unspawned"
    /\ requests = <<>>
    /\ conn = "idle"
    /\ connAttempted = FALSE
    /\ disconnectRequested = FALSE
    /\ notification = "none"
    /\ workerLog = ""
    /\ url = None
    /\ shop_domain = None
    /\ product_key = None
    /\ product_hash = None
    /\ httpFetched = FALSE
    /\ body = None
    /\ snapshot = None
    /\ published = <<>>
    /\ sent = 0

FirstRun ==
    /\ retained = EmptyStore
    /\ now = 0
    /\ run = 1
    /\ prev = None
    /\ retained0 = EmptyStore

\* no digest is being rendered on its own
NoHex == hex_slice = <<>> /\ hex_text = None

Init == (\E a \in Inputs : ProcStart(a)) /\ FirstRun /\ NoHex

InitRuns == (\E a \in RunInputs : ProcStart(a)) /\ FirstRun /\ NoHex

Running == exit_status = None

mainVars == <<args, mqtt_opts, url, shop_domain, product_key, product_hash,
              httpFetched, body, snapshot, published>>
workerVars == <<mqtt_thread, requests, conn, connAttempted, notification, workerLog, sent>>
brokerVars == <<retained>>
runVars == <<now, run, prev, retained0, hex_slice, hex_text>>

\* the process ends with status code; msg is the message of the fatal error
Exit(code, at, msg) ==
    /\ exit_status' = Some(code)
    /\ pc' = at
    /\ fatal' = msg

PanicExit(msg) == Exit(ExitPanic, "panicked", msg)

Goto(at) == pc' = at /\ UNCHANGED <<exit_status, fatal>>

(***************************************************************************)
(* main(), lines 70-164: arguments, clients, worker spawn, URL, identity.  *)
(***************************************************************************)
\* the assert! left out: every combination of username and password passes
CredentialsUnchecked(a) == TRUE

\* lines 71-74: the condition of the assert!
CredentialsOk(a) == ~(a.mqtt_password.some /\ ~a.mqtt_username.some)

\* lines 70-77
CheckArgs ==
    /\ Running /\ pc = "args"
    /\ IF CredentialsOk(args)
       THEN Goto("client")
       ELSE PanicExit("MQTT Broker password is provided without any username. Aborting...")
    /\ UNCHANGED <<mainVars, workerVars, disconnectRequested, brokerVars, runVars>>

\* lines 95-101: set_credentials(username, password.unwrap_or(String::new()))
Credentials(a) ==
    IF a.mqtt_username.some
    THEN Some([username |-> a.mqtt_username.v,
               password |-> IF a.mqtt_password.some THEN a.mqtt_password.v ELSE ""])
    ELSE None

\* lines 79-104: the HTTP client, the MQTT options and rumqttc::Client::new
NewClient ==
    /\ Running /\ pc = "client"
    /\ mqtt_opts' = Some([credentials |-> Credentials(args), keep_alive |-> 10])
    /\ Goto("spawn")
    /\ UNCHANGED <<args, url, shop_domain, product_key, product_hash, httpFetched, body,
                   snapshot, published, workerVars, disconnectRequested, brokerVars, runVars>>

\* lines 106-127: the MQTTEventLoop thread starts
SpawnWorker ==
    /\ Running /\ pc = "spawn"
    /\ mqtt_thread' = "running"
    /\ workerLog' = "info: MQTT client running"
    /\ Goto("url")
    /\ UNCHANGED <<mainVars, requests, conn, connAttempted, notification, sent,
                   disconnectRequested, brokerVars, runVars>>

\* lines 131-137: a URL that does not parse is logged and main returns
ParseUrl ==
    /\ Running /\ pc = "url"
    /\ LET u == UrlParse(args.url)
       IN IF u.some
          THEN url' = u /\ Goto("host")
          ELSE url' = url /\ Exit(ExitOk, "returned", "Unable to parse URL")
    /\ UNCHANGED <<args, mqtt_opts, shop_domain, product_key, product_hash, httpFetched,
                   body, snapshot, published, workerVars, disconnectRequested, brokerVars,
                   runVars>>

\* lines 139-145
CheckHost ==
    /\ Running /\ pc = "host"
    /\ IF WrongHost(url.v)
       THEN PanicExit("Wrong URL - This tool currently only supports tokopedia.com urls")
       ELSE Goto("segments")
    /\ UNCHANGED <<mainVars, workerVars, disconnectRequested, brokerVars, runVars>>

\* lines 146-154: [ok |-> TRUE, shop, key] or [ok |-> FALSE, msg]
Locator(u) ==
    LET path_segment == PathSegments(u)
    IN IF ~path_segment.some
       THEN Panic("Wrong URL format - Seems like you've pasted in a base URL")
       ELSE LET shop == SegmentNext(path_segment.v, 1)
                key == SegmentNext(path_segment.v, 2)
            IN IF ~shop.some
               THEN Panic("Wrong URL format - Shop domain is empty. Did you copy the right URL?")
               ELSE IF ~key.some
               THEN Panic("Wrong URL format - Product key is empty. Did you copy a product URL?")
               ELSE [ok |-> TRUE, shop |-> shop.v, key |-> key.v]

\* lines 146-157
ExtractLocator ==
    /\ Running /\ pc = "segments"
    /\ LET l == Locator(url.v)
       IN IF l.ok
          THEN /\ shop_domain' = Some(l.shop)
               /\ product_key' = Some(l.key)
               /\ Goto("hash")
          ELSE /\ UNCHANGED <<shop_domain, product_key>>
               /\ PanicExit(l.msg)
    /\ UNCHANGED <<args, mqtt_opts, url, product_hash, httpFetched, body, snapshot,
                   published, workerVars, disconnectRequested, brokerVars, runVars>>

\* lines 159-168: the identity, then the branch on --delete
DeriveHash ==
    /\ Running /\ pc = "hash"
    /\ product_hash' = Some(ProductHash(shop_domain.v, product_key.v))
    /\ Goto(IF args.unretain THEN "delete" ELSE "fetch")
    /\ UNCHANGED <<args, mqtt_opts, url, shop_domain, product_key, httpFetched, body,
                   snapshot, published, workerVars, disconnectRequested, brokerVars, runVars>>

(***************************************************************************)
(* The request channel (capacity RequestCap): a send blocks while the      *)
(* channel is full and fails once the worker has dropped the connection.   *)
(***************************************************************************)
SendFails == mqtt_thread = "stopped"
CanSend == SendFails \/ Len(requests) < RequestCap

\* a publish call whose request overtakes the requests already in the channel
PublishNextFront(at, msgs, expects) ==
    LET i == Len(published) + 1
    IN /\ CanSend
       /\ IF SendFails
          THEN /\ PanicExit(expects[i])
               /\ UNCHANGED <<requests, published>>
          ELSE /\ requests' = <<PublishRequest(msgs[i])>> \o requests
               /\ published' = Append(published, msgs[i])
               /\ Goto(IF i = Len(msgs) THEN "disconnect" ELSE at)
\* a publish call that goes on to the next message when the send fails
PublishNextIgnoreFailure(at, msgs, expects) ==
    LET i == Len(published) + 1
    IN /\ CanSend
       /\ requests' = IF SendFails THEN requests
                      ELSE Append(requests, PublishRequest(msgs[i]))
       /\ published' = Append(published, msgs[i])
       /\ Goto(IF i = Len(msgs) THEN "disconnect" ELSE at)
\* one publish call of a path: msgs the path's messages, expects its .expect texts
PublishNext(at, msgs, expects) ==
    LET i == Len(published) + 1
    IN /\ CanSend
       /\ IF SendFails
          THEN /\ PanicExit(expects[i])
               /\ UNCHANGED <<requests, published>>
          ELSE /\ requests' = Append(requests, PublishRequest(msgs[i]))
               /\ published' = Append(published, msgs[i])
               /\ Goto(IF i = Len(msgs) THEN "disconnect" ELSE at)

\* lines 175-269
DeletePublish ==
    /\ Running /\ pc = "delete"
    /\ PublishNext("delete",
                   DeleteMsgs(args.ha_mqtt_discovery_topic, product_hash.v),
                   DeleteExpects)
    /\ UNCHANGED <<args, mqtt_opts, url, shop_domain, product_key, product_hash,
                   httpFetched, body, snapshot, mqtt_thread, conn, connAttempted,
                   notification, workerLog, sent, disconnectRequested, brokerVars, runVars>>

\* lines 280-312: the request is sent and the response read as JSON
HttpFetch ==
    /\ Running /\ pc = "fetch"
    /\ httpFetched' = TRUE
    /\ \E r \in HttpOutcomes(Bodies) :
         IF r.kind = "send_failed" THEN body' = body /\ PanicExit("Failed to send request")
         ELSE IF r.kind = "not_json" THEN body' = body /\ PanicExit("Failed to read response text")
         ELSE body' = Some(r.doc) /\ Goto("extract")
    /\ UNCHANGED <<args, mqtt_opts, url, shop_domain, product_key, product_hash, snapshot,
                   published, workerVars, disconnectRequested, brokerVars, runVars>>

\* an extraction that goes on to publish with whatever it found
ExtractSnapshotLenient ==
    /\ Running /\ pc = "extract"
    /\ LET r == Extracted[body.v]
       IN snapshot' = Some(IF r.ok THEN r.snapshot ELSE [name |-> "", price |-> 0, stock |-> 0])
    /\ Goto("create")
    /\ UNCHANGED <<args, mqtt_opts, url, shop_domain, product_key, product_hash,
                   httpFetched, body, published, workerVars, disconnectRequested,
                   brokerVars, runVars>>
\* lines 314-351
ExtractSnapshot ==
    /\ Running /\ pc = "extract"
    /\ LET r == Extracted[body.v]
       IN IF r.ok
          THEN snapshot' = Some(r.snapshot) /\ Goto("create")
          ELSE snapshot' = snapshot /\ PanicExit(r.msg)
    /\ UNCHANGED <<args, mqtt_opts, url, shop_domain, product_key, product_hash,
                   httpFetched, body, published, workerVars, disconnectRequested,
                   brokerVars, runVars>>

\* lines 353-514
CreatePublish ==
    /\ Running /\ pc = "create"
    /\ PublishNext("create",
                   CreateMsgs(args.ha_mqtt_discovery_topic, product_hash.v,
                              DeviceInfo(shop_domain.v, product_key.v, product_hash.v,
                                         snapshot.v.name),
                              snapshot.v, now),
                   CreateExpects)
    /\ UNCHANGED <<args, mqtt_opts, url, shop_domain, product_key, product_hash,
                   httpFetched, body, snapshot, mqtt_thread, conn, connAttempted,
                   notification, workerLog, sent, disconnectRequested, brokerVars, runVars>>

\* lines 270 and 516-518: mqtt_client.disconnect()
Disconnect ==
    /\ Running /\ pc = "disconnect"
    /\ CanSend
    /\ IF SendFails
       THEN /\ PanicExit(IF args.unretain THEN "Unable to disconnect mqtt"
                         ELSE "Unable to disconnect from MQTT")
            /\ UNCHANGED <<requests, disconnectRequested>>
       ELSE /\ requests' = Append(requests, DisconnectRequest)
            /\ disconnectRequested' = TRUE
            /\ Goto("join")
    /\ UNCHANGED <<mainVars, mqtt_thread, conn, connAttempted, notification, workerLog,
                   sent, brokerVars, runVars>>

\* lines 272-277 and 520-525: join returns once the worker's closure has returned
Join ==
    /\ Running /\ pc = "join"
    /\ mqtt_thread = "stopped"
    /\ Exit(ExitOk, "done", "")
    /\ UNCHANGED <<mainVars, workerVars, disconnectRequested, brokerVars, runVars>>

(***************************************************************************)
(* The MQTTEventLoop thread, lines 108-126: one step drains one            *)
(* notification of mqtt_connection.iter().  Which notification comes is    *)
(* the choice of rumqttc, the network and the broker:                      *)
(*   - with no connection, a poll starts a connection attempt, which ends  *)
(*     in ConnAck or in a ConnectionError that is no MqttState error;      *)
(*   - with a connection, a poll writes the next request of the channel to *)
(*     the broker, or reports a failure; the peer closing the connection   *)
(*     is MqttState(Io(ConnectionAborted)), and the broker closes it on    *)
(*     DISCONNECT; after another failure the next poll reconnects.         *)
(* The process ending ends the thread.                                     *)
(***************************************************************************)
WorkerRunning == Running /\ mqtt_thread = "running"

\* lines 112-114: Ok(_)
WorkerOk ==
    /\ WorkerRunning
    /\ workerLog' = "debug: Message"
    /\ IF conn = "idle"
       THEN /\ conn' = "connected"
            /\ connAttempted' = TRUE
            /\ notification' = "Ok(Incoming(ConnAck))"
            /\ UNCHANGED <<requests, sent, retained>>
       ELSE /\ conn = "connected"
            /\ requests # <<>>
            /\ requests' = Tail(requests)
            /\ UNCHANGED connAttempted
            /\ IF Head(requests).req = "Publish"
               THEN /\ sent' = sent + 1
                    /\ retained' = BrokerStore(retained, Head(requests).msg)
                    /\ conn' = conn
                    /\ notification' = "Ok(Outgoing(Publish))"
               ELSE /\ conn' = "closed"
                    /\ notification' = "Ok(Outgoing(Disconnect))"
                    /\ UNCHANGED <<sent, retained>>
    /\ UNCHANGED <<pc, exit_status, fatal, mainVars, mqtt_thread, disconnectRequested,
                   runVars>>

\* the kinds of I/O state errors a poll can report
IoKinds == IF conn = "connected" THEN {"ConnectionAborted", "ConnectionReset"}
           ELSE IF conn = "closed" THEN {"ConnectionAborted"}
           ELSE {}

\* line 116: the test that ends the loop
IsAbort(kind) == kind = "ConnectionAborted"

\* lines 115-120: Err(ConnectionError::MqttState(StateError::Io(e)))
WorkerIoError ==
    /\ WorkerRunning
    /\ \E kind \in IoKinds :
         /\ notification' = "Err(MqttState(Io(" \o kind \o ")))"
         /\ IF IsAbort(kind)
            THEN /\ workerLog' = "info: All MQTT message has been pushed. Stopping gracefully..."
                 /\ mqtt_thread' = "stopped"
                 /\ requests' = <<>>
                 /\ conn' = "closed"
            ELSE /\ workerLog' = ""
                 /\ conn' = "idle"
                 /\ UNCHANGED <<mqtt_thread, requests>>
    /\ UNCHANGED <<pc, exit_status, fatal, mainVars, connAttempted, sent,
                   disconnectRequested, brokerVars, runVars>>

\* the other connection errors a poll can report
OtherErrors == IF conn = "idle" THEN {"Io(ConnectionRefused)"}
               ELSE IF conn = "connected" THEN {"MqttState(AwaitPingResp)"}
               ELSE {}

\* lines 121-123: Err(e)
WorkerOtherError ==
    /\ WorkerRunning
    /\ \E e \in OtherErrors :
         /\ notification' = "Err(" \o e \o ")"
         /\ workerLog' = "error: Unknown error"
         /\ connAttempted' = (connAttempted \/ conn = "idle")
         /\ conn' = "idle"
    /\ UNCHANGED <<pc, exit_status, fatal, mainVars, mqtt_thread, requests, sent,
                   disconnectRequested, brokerVars, runVars>>

(***************************************************************************)
(* The next invocation of the program against the same broker.             *)
(***************************************************************************)
\* what a create run leaves to compare the next run with
CreateRecord ==
    IF ~args.unretain /\ sent > 0
    THEN Some([hash |-> product_hash.v, prefix |-> args.ha_mqtt_discovery_topic,
               snapshot |-> snapshot.v, topics |-> TopicsOf(SubSeq(published, 1, sent))])
    ELSE None

NewRun ==
    /\ ~Running
    /\ run < MaxRuns
    /\ \E a \in RunInputs : args' = a
    /\ pc' = "args"
    /\ exit_status' = None
    /\ fatal' = ""
    /\ mqtt_opts' = None
    /\ mqtt_thread' = "unspawned"
    /\ requests' = <<>>
    /\ conn' = "idle"
    /\ connAttempted' = FALSE
    /\ disconnectRequested' = FALSE
    /\ notification' = "none"
    /\ workerLog' = ""
    /\ url' = None
    /\ shop_domain' = None
    /\ product_key' = None
    /\ product_hash' = None
    /\ httpFetched' = FALSE
    /\ body' = None
    /\ snapshot' = None
    /\ published' = <<>>
    /\ sent' = 0
    /\ run' = run + 1
    /\ now' = now + 1
    /\ prev' = CreateRecord
    /\ retained0' = retained
    /\ UNCHANGED <<retained, hex_slice, hex_text>>

MainStep ==
    \/ CheckArgs
    \/ NewClient
    \/ SpawnWorker
    \/ ParseUrl
    \/ CheckHost
    \/ ExtractLocator
    \/ DeriveHash
    \/ DeletePublish
    \/ HttpFetch
    \/ ExtractSnapshot
    \/ CreatePublish
    \/ Disconnect
    \/ Join

WorkerStep ==
    \/ WorkerOk
    \/ WorkerIoError
    \/ WorkerOtherError

\* one run of the program, for every command line
Next == MainStep \/ WorkerStep

Spec == Init /\ [][Next]_vars

\* one run with both threads scheduled fairly: a thread that can take a step is not
\* left waiting for ever.  What the network and the broker do stays free.
SpecFair == InitRuns /\ [][Next]_vars /\ WF_vars(MainStep) /\ WF_vars(WorkerStep)

(***************************************************************************)
(* HexSlice::fmt on its own: a digest of DigestLen bytes is rendered once. *)
(***************************************************************************)
\* byte values on both sides of 0x10, with decimal and with letter digits
ByteSamples == {0, 1, 10, 16, 17, 255}
Digests == [1..DigestLen -> ByteSamples]

InitHex ==
    /\ \E a \in RunInputs : ~a.unretain /\ ProcStart(a)
    /\ FirstRun
    /\ hex_slice \in Digests
    /\ hex_text = None

\* line 164: format!("{:x}", HexSlice(&product_hash))
FormatHex ==
    /\ hex_text = None
    /\ hex_text' = Some(HexSliceFmt(hex_slice, FALSE))
    /\ UNCHANGED <<procVars, retained, now, run, prev, retained0, hex_slice>>

NextHex == FormatHex

SpecHex == InitHex /\ [][NextHex]_vars

\* runs with one locator and prefix, one after another, against one broker
NextRuns == MainStep \/ WorkerStep \/ NewRun

SpecRuns == InitRuns /\ [][NextRuns]_vars

(***************************************************************************)
(* Properties.                                                             *)
(***************************************************************************)
Prefix == args.ha_mqtt_discovery_topic

\* the snapshots the responses of Bodies give
Snapshots == {Extract(d).snapshot : d \in GoodBodies}

\* the topics a delete run publishes to, and the topics a create run with snapshot
\* snap publishes to, for the identity and prefix of the current run
DeleteTopics == TopicsOf(DeleteMsgs(Prefix, product_hash.v))
CreateTopics(snap) ==
    TopicsOf(CreateMsgs(Prefix, product_hash.v,
                        DeviceInfo(shop_domain.v, product_key.v, product_hash.v, snap.name),
                        snap, now))
ConfigTopicsIn(topics) == {t \in topics : StartsWith(t, Prefix \o "/sensor/tkpd-")}
StateTopicsIn(topics) == {t \in topics : StartsWith(t, "tkpdprice/")}

AllPublished == pc \in {"disconnect", "join", "done"}

\* C1 (erase-covers-create): every topic a delete run publishes to is a topic the
\* create path publishes to for the same identity and prefix, whatever the snapshot,
\* and the other way round; once a run has made all its publish calls the topics it
\* touched are exactly the other path's: five config topics and five state topics.
C1_EraseCoversCreate ==
    product_hash.some =>
        /\ args.unretain =>
             \A snap \in Snapshots :
                 /\ TopicsOf(published) \subseteq CreateTopics(snap)
                 /\ AllPublished => TopicsOf(published) = CreateTopics(snap)
        /\ ~args.unretain =>
             /\ TopicsOf(published) \subseteq DeleteTopics
             /\ AllPublished => TopicsOf(published) = DeleteTopics
        /\ AllPublished =>
             /\ Cardinality(ConfigTopicsIn(TopicsOf(published))) = 5
             /\ Cardinality(StateTopicsIn(TopicsOf(published))) = 5
             /\ Cardinality(TopicsOf(published)) = 10

\* a delete run that has made all its publish calls and ended
C1_Witness == pc = "done" /\ args.unretain /\ Len(published) = 10

\* C2 (disconnect-then-join): the disconnect request follows the last publish call,
\* main reaches its success exit only once the worker has stopped, and at the success
\* exit every message handed to the channel has been written to the broker.
C2_DisconnectThenJoin ==
    /\ disconnectRequested => AllPublished
    /\ pc = "done" => mqtt_thread = "stopped"
    /\ pc = "done" => sent = Len(published)

\* the ten topics of the current run's identity
TenTopics == DeleteTopics \cup UNION {CreateTopics(snap) : snap \in Snapshots}

\* C3 (delete lifecycle): a delete run that ends successfully made no HTTP fetch,
\* handed nothing but empty retained publishes on the ten topics and the disconnect to
\* the channel, and leaves the broker with no retained message on any topic of the
\* identity; if none was retained when it started, the store is as it was.
C3_DeleteLifecycle ==
    (pc = "done" /\ args.unretain) =>
        /\ ~httpFetched
        /\ Len(published) = 10
        /\ \A m \in Range(published) : m.retain /\ IsEmpty(m.payload)
        /\ \A t \in TenTopics : t \notin DOMAIN retained
        /\ (DOMAIN retained0 \cap TenTopics = {}) => retained = retained0

Lookup(store, t) == IF t \in DOMAIN store THEN Some(store[t]) ELSE None

\* the current run is a create run with the identity, prefix and snapshot of the
\* create run before it
SameCreateAgain ==
    /\ ~args.unretain /\ prev.some /\ product_hash.some /\ snapshot.some
    /\ prev.v.hash = product_hash.v
    /\ prev.v.prefix = Prefix
    /\ prev.v.snapshot = snapshot.v

\* the topics the broker has received a message on in this run
SentTopics == TopicsOf(SubSeq(published, 1, sent))

UpdatedAtTopic == "tkpdprice/" \o product_hash.v \o "/updated-at"

InputErrors == {"MQTT Broker password is provided without any username. Aborting...",
                "Unable to parse URL",
                "Wrong URL - This tool currently only supports tokopedia.com urls",
                "Wrong URL format - Seems like you've pasted in a base URL",
                "Wrong URL format - Shop domain is empty. Did you copy the right URL?",
                "Wrong URL format - Product key is empty. Did you copy a product URL?"}

\* C5 (input errors precede network activity): when a run ends with an input error,
\* the worker has started no connection attempt and no HTTP request has been sent.
C5_InputErrorsBeforeNetwork ==
    fatal \in InputErrors => (~connAttempted /\ ~httpFetched)

\* C6 (exit status): a run that ended has status 0 exactly if no fatal condition
\* ended it.
C6_ExitStatus ==
    exit_status.some => (exit_status.v = ExitOk <=> fatal = "")

PasswordOnly == args.mqtt_password.some /\ ~args.mqtt_username.some
UsernameOnly == args.mqtt_username.some /\ ~args.mqtt_password.some
NoCredentials == ~args.mqtt_username.some /\ ~args.mqtt_password.some

\* C7 (credential rule): with a password and no username the run panics with no
\* session created, no worker and no connection attempt; with a username and no
\* password the run is not rejected and the session carries that username and the
\* empty password; with neither the session carries no credentials.
C7_CredentialRule ==
    /\ PasswordOnly =>
         /\ ~mqtt_opts.some /\ mqtt_thread = "unspawned" /\ ~connAttempted
         /\ pc \in {"args", "panicked"}
         /\ pc = "panicked" => exit_status = Some(ExitPanic)
    /\ UsernameOnly =>
         /\ fatal \notin {"MQTT Broker password is provided without any username. Aborting..."}
         /\ pc \notin {"args", "client"} =>
              mqtt_opts = Some([credentials |-> Some([username |-> args.mqtt_username.v,
                                                      password |-> ""]),
                                keep_alive |-> 10])
    /\ NoCredentials =>
         (pc \notin {"args", "client"} => (mqtt_opts.some /\ mqtt_opts.v.credentials = None))

\* a run given a password and no username, rejected
C7_Witness == PasswordOnly /\ pc = "panicked" /\ exit_status = Some(ExitPanic)

\* C8 (locator validity): once the locator is taken from the URL both its parts are
\* non-empty, and nothing is published for a locator with an empty part.
C8_LocatorValidity ==
    /\ shop_domain.some => shop_domain.v # ""
    /\ product_key.some => product_key.v # ""

\* C9 (worker stop condition): the worker has stopped only if main had requested the
\* disconnect before.
C9_WorkerStopCondition ==
    mqtt_thread = "stopped" => disconnectRequested

Abort == "Err(MqttState(Io(ConnectionAborted)))"
ErrorNotifications == {"Err(MqttState(Io(ConnectionAborted)))",
                       "Err(MqttState(Io(ConnectionReset)))",
                       "Err(MqttState(AwaitPingResp))",
                       "Err(Io(ConnectionRefused))"}

\* C10 (worker error tolerance): after every error notification other than the
\* connection abort the worker has logged the error and is still running.
C10_WorkerErrorTolerance ==
    (notification \in ErrorNotifications /\ notification # Abort) =>
        (workerLog = "error: Unknown error" /\ mqtt_thread = "running")

\* C11 (run termination): under fair scheduling of main and the worker every run
\* ends, with success or abnormally, whatever the broker does.
C11_RunTermination == <>(~Running)

\* the entity tokens, in the order of the create path's publish calls
Entities == <<"name", "price", "stock", "updated-at", "scraper-version">>
ConfigTopic(prefix, hash, e) == prefix \o "/sensor/tkpd-" \o hash \o "/" \o e \o "/config"
StateTopic(hash, e) == "tkpdprice/" \o hash \o "/" \o e

\* the topic of the i-th publish call of a create run: five configs, then five states
CreateOrder(i) ==
    IF i <= 5 THEN ConfigTopic(Prefix, product_hash.v, Entities[i])
    ELSE StateTopic(product_hash.v, Entities[i - 5])

IsPublishRequest(r) == r.req = "Publish"
\* the publish requests of the calls made and not yet transmitted, in call order
Pending == [i \in 1..(Len(published) - sent) |-> PublishRequest(published[sent + i])]

\* C12 (publish order): in a create run the calls are made in the order name, price,
\* stock, updated-at, scraper-version configs, then the states in the same order;
\* the channel holds the calls not yet transmitted in call order, so the messages
\* are transmitted in call order and each config before its state.
C12_PublishOrder ==
    (~args.unretain /\ product_hash.some) =>
        /\ Len(published) <= 10
        /\ \A i \in 1..Len(published) : published[i].topic = CreateOrder(i)
        /\ sent <= Len(published)
        /\ mqtt_thread = "running" =>
             /\ SelectSeq(requests, IsPublishRequest) = Pending
             /\ \A k \in 1..Len(requests) :
                    requests[k] = DisconnectRequest => k = Len(requests)

\* a create run that has made and transmitted all ten publishes and ended
C12_Witness == ~args.unretain /\ pc = "done" /\ Len(published) = 10 /\ sent = 10

\* the entity token of a config topic .../<entity>/config
EntityOf(topic) == LET segs == Split(topic, "/") IN segs[Len(segs) - 1]
ConfigsPublished == {i \in 1..Len(published) : i <= 5}

\* C13 (unique_id form): in a create run the unique_id of every config payload is
\* "tkpdprice-" + hash + "-" + the entity token of that payload's config topic.
C13_UniqueIdForm ==
    (~args.unretain /\ product_hash.some) =>
        \A i \in ConfigsPublished :
            published[i].payload.json.unique_id =
                "tkpdprice-" \o product_hash.v \o "-" \o EntityOf(published[i].topic)

\* the hash in a config topic <prefix>/sensor/tkpd-<hash>/<entity>/config
TopicHash(topic) ==
    LET segs == Split(topic, "/")
        node == segs[Len(segs) - 2]
    IN SubSeq(node, Len("tkpd-") + 1, Len(node))
DeviceOf(m) == m.payload.json.device
DescriptorFields == {"manufacturer", "model_id", "identifiers", "serial_number",
                     "sw_version", "configuration_url", "name"}

\* C14 (shared descriptor): the config payloads published in one create run embed the
\* same device descriptor, field for field, and its identifiers and serial_number
\* are made from the hash that is in the config topics.
C14_SharedDescriptor ==
    (~args.unretain /\ product_hash.some) =>
        \A i \in ConfigsPublished :
            /\ DOMAIN DeviceOf(published[i]) = DescriptorFields
            /\ \A j \in ConfigsPublished :
                   \A f \in DescriptorFields :
                       DeviceOf(published[i])[f] = DeviceOf(published[j])[f]
            /\ TopicHash(published[i].topic) = product_hash.v
            /\ DeviceOf(published[i]).identifiers =
                   "tkpdprice-" \o TopicHash(published[i].topic)
            /\ DeviceOf(published[i]).serial_number = TopicHash(published[i].topic)

\* a create run that has published its five configs and ended
C14_Witness == ~args.unretain /\ pc = "done" /\ Cardinality(ConfigsPublished) = 5

ExtractionFailed == body.some /\ ~Extract(body.v).ok

\* C15 (no partial snapshot): a create run whose extraction fails aborts with nothing
\* published, queued or transmitted; a create run that has published anything holds
\* the snapshot the extraction validated, and its state payloads are that snapshot's
\* three fields.
C15_NoPartialSnapshot ==
    ~args.unretain =>
        /\ ExtractionFailed =>
             /\ pc \in {"extract", "panicked"}
             /\ snapshot = None
             /\ published = <<>> /\ requests = <<>> /\ sent = 0
        /\ published # <<>> =>
             /\ body.some /\ Extract(body.v).ok
             /\ snapshot = Some(Extract(body.v).snapshot)
             /\ Len(published) >= 6 => published[6].payload = Text(snapshot.v.name)
             /\ Len(published) >= 7 => published[7].payload = Text(I64ToString(snapshot.v.price))
             /\ Len(published) >= 8 => published[8].payload = Text(I64ToString(snapshot.v.stock))

\* a create run ended by a failed extraction
C15_Witness == ~args.unretain /\ ExtractionFailed /\ pc = "panicked"

HasErrorList == Get(body.v, "errors").some
\* the message of the first element of the error list, when there is one
FirstErrorMessage ==
    LET first_error == GetIdx(Get(body.v, "errors").v, 0)
    IN IF first_error.some THEN Get(first_error.v, "message") ELSE None
RemoteError(message) == "Unable to fetch product data - " \o Display(message)

\* C16 (extraction error classification): a failed extraction of a document with an
\* error list ends with the remote error that carries the first element's message;
\* every other failed extraction ends with the error that says the API has changed.
C16_ErrorClassification ==
    (~args.unretain /\ ExtractionFailed /\ pc = "panicked") =>
        IF HasErrorList
        THEN FirstErrorMessage.some => fatal = RemoteError(FirstErrorMessage.v)
        ELSE fatal = ApiChanged

\* the .expect texts of the publish calls of the run's path, and of its disconnect
PathExpects == IF args.unretain THEN DeleteExpects ELSE CreateExpects
DisconnectExpect == IF args.unretain THEN "Unable to disconnect mqtt"
                    ELSE "Unable to disconnect from MQTT"
PublishFailed == pc = "panicked" /\ fatal \in Range(PathExpects)
DisconnectFailed == pc = "panicked" /\ fatal = DisconnectExpect
\* main is at a publish or disconnect call and the call is going to fail
AtFailingCall == Running /\ pc \in {"delete", "create", "disconnect"} /\ SendFails

\* the run has ended by the failure of the call after the calls in published: that
\* call is not in published, nothing is left in the channel, and a create run has
\* published no erase message
AbortedAtFailedCall ==
    /\ PublishFailed =>
         /\ exit_status = Some(ExitPanic)
         /\ Len(published) < 10
         /\ fatal = PathExpects[Len(published) + 1]
         /\ requests = <<>> /\ ~disconnectRequested
         /\ sent <= Len(published)
         /\ ~args.unretain => \A i \in 1..Len(published) : ~IsEmpty(published[i].payload)
    /\ DisconnectFailed =>
         /\ exit_status = Some(ExitPanic)
         /\ Len(published) = 10
         /\ requests = <<>> /\ ~disconnectRequested
         /\ ~args.unretain => \A i \in 1..Len(published) : ~IsEmpty(published[i].payload)

\* the step of main at a failing call ends the run and neither publishes, queues
\* nor transmits anything
FailingCallAborts ==
    AtFailingCall =>
        /\ pc' = "panicked" /\ exit_status' = Some(ExitPanic)
        /\ UNCHANGED <<published, requests, sent, retained, disconnectRequested>>

\* C17 (publish failure aborts): a publish or disconnect call that fails ends the run
\* at once with a panic; the failed call is not made again, no later call is made
\* and no erase message is published for what the run has already published.
C17_PublishFailureAborts == [](AbortedAtFailedCall) /\ [][FailingCallAborts]_vars

\* a create run ended by a failed publish after it had published some messages
C17_Witness == ~args.unretain /\ PublishFailed /\ Len(published) >= 1

\* the locators (shop, key) whose concatenation is s
Splits(s) == {<<SubSeq(s, 1, i), SubSeq(s, i + 1, Len(s))>> : i \in 0..Len(s)}
\* the digest of a byte string fed at once, rendered as the identity
IdentityOfBytes(s) == HexSliceFmt(FinalizeBoxed(AsBytes(s)), FALSE)

\* C18 (identity determinism): the identity of a run is the identity of the bytes of
\* shop_domain followed by those of product_key, whatever the run, the clock and the
\* other arguments; every locator with the same concatenation has this identity and
\* the same ten topics.
C18_IdentityDeterminism ==
    product_hash.some =>
        /\ product_hash.v = IdentityOfBytes(shop_domain.v \o product_key.v)
        /\ \A sp \in Splits(shop_domain.v \o product_key.v) :
               /\ ProductHash(sp[1], sp[2]) = product_hash.v
               /\ TopicsOf(DeleteMsgs(Prefix, ProductHash(sp[1], sp[2]))) = DeleteTopics
        /\ Cardinality(DeleteTopics) = 10

\* a run for the locator ("a", "bc"), whose concatenation is that of ("ab", "c")
C18_Witness ==
    /\ product_hash.some /\ shop_domain.v = "a" /\ product_key.v = "bc"
    /\ product_hash.v = ProductHash("ab", "c")

StateTopicOf(m) == m.payload.json.state_topic

\* C19 (state-topic agreement): in a create run the state_topic in the config payload
\* of an entity is "tkpdprice/" + hash + "/" + entity, the topic the entity's state
\* message is published to, and every message of the run is published retained.
C19_StateTopicAgreement ==
    (~args.unretain /\ product_hash.some) =>
        /\ \A i \in ConfigsPublished :
               /\ StateTopicOf(published[i]) =
                      StateTopic(product_hash.v, EntityOf(published[i].topic))
               /\ EntityOf(published[i].topic) = Entities[i]
               /\ Len(published) >= i + 5 =>
                      published[i + 5].topic = StateTopicOf(published[i])
        /\ \A i \in 1..Len(published) : published[i].retain
        /\ \A k \in 1..Len(requests) :
               IsPublishRequest(requests[k]) => requests[k].msg.retain

\* a create run that has published its five configs and five states and ended
C19_Witness ==
    /\ ~args.unretain /\ pc = "done" /\ Len(published) = 10
    /\ published[10].topic = StateTopicOf(published[5])

\* the value of a lowercase hex digit, -1 for any other character
DigitValue(c) == IndexOf("0123456789abcdef", c, 1) - 1
\* the byte a pair of characters spells, -1 if a character is no lowercase hex digit
PairValue(s, i) ==
    LET hi == DigitValue(CharAt(s, 2 * i - 1))
        lo == DigitValue(CharAt(s, 2 * i))
    IN IF hi < 0 \/ lo < 0 THEN -1 ELSE 16 * hi + lo

\* C20 (hex rendering): the text of a 4-byte digest has 8 characters, the i-th pair
\* of them being the two lowercase hex digits of the i-th byte (a leading zero below
\* 0x10), it has no "0x" prefix, and no other digest has the same text.
C20_HexRendering ==
    hex_text.some =>
        /\ Len(hex_slice) = 4
        /\ Len(hex_text.v) = 8
        /\ \A i \in 1..4 : PairValue(hex_text.v, i) = hex_slice[i]
        /\ \A i \in 1..4 : hex_slice[i] < 16 => CharAt(hex_text.v, 2 * i - 1) = "0"
        /\ ~StartsWith(hex_text.v, "0x")
        /\ \A d \in Digests : d # hex_slice => HexSliceFmt(d, FALSE) # hex_text.v

\* a digest with bytes below and above 0x10 and its text
C20_Witness == hex_slice = <<0, 10, 16, 255>> /\ hex_text = Some("000a10ff")

====
